---- MODULE Spec2Model ----
(***************************************************************************)
(* ghkv: a key/value document store on a remote versioned blob store, and  *)
(* the resource lock built on its update().                                *)
(*                                                                         *)
(* The document reference is the latest variant of GhkvDataStore.doc (the  *)
(* one with the 5e3 ms cache window, the no-op write elision, the          *)
(* cacheLoadPromise coalescing and the 409/422 retry).  Every request to   *)
(* the remote store is three steps: the client issues it, the store serves *)
(* it (atomically), the response is delivered to the client.  Everything a *)
(* JavaScript macrotask does (the continuation of every awaiting caller)   *)
(* is one step.  Times are in milliseconds, as in the source, and every     *)
(* instant is kept as its distance from the present (Now): when time       *)
(* passes, the instants the state holds move into the past.                *)
(***************************************************************************)
EXTENDS Integers, Sequences, FiniteSets, TLC

VARIABLES
    remote,        \* the blob of the key in the remote store: <<>> or <<content>>
    connectivity,  \* per store: this.connectivityPromise
    cache,         \* per reference: the closure variable `cache`
    load,          \* per reference: cacheLoadPromise and the getContents call behind it
    call,          \* per caller: one get()/set()/update() call and its updateDoc loop
    lock,          \* per acquirer: the state of GhkvResourceLock.acquire()
    datastore,     \* per store: the options and the Map `cache` of GhkvDataStore
    faults,        \* backend errors the store may still answer
    external       \* whether a writer outside the modelled callers has written

vars == <<remote, connectivity, cache, load, call, lock, datastore, faults, external>>

----------------------------------------------------------------------------
(* Bounds *)

\* backend errors (status 500, failed preflight) the store may answer in one run
MaxFaults == 1
\* the step of the clock in the document specification, in ms
TickMs == 5000
\* the largest count a writer outside the modelled callers writes
MaxCount == 1
\* the step of the clock in the lock specification, in ms
LockStep == 60000
\* what is left of the lease of a holder that crashed before the start, in ms
CrashedLease == 30000
\* calls of doc() on one store
MaxDocs == 2
\* calls of release() on one acquired lock
MaxReleases == 2
\* acquirers of the resource beside the modelled ones, of which the store sees
\* the committed request updates only
MaxOutsiders == 6

----------------------------------------------------------------------------
(* Program constants *)

CacheTtl == 5000
MaxRetries == 5
retryDelays == <<0, 1000, 2000, 5000, 10000>>

\* Date.now(), the origin of the time axis
Now == 0

Min(a, b) == IF a < b THEN a ELSE b
Max(a, b) == IF a > b THEN a ELSE b

----------------------------------------------------------------------------
(* Values.  An optional value is <<>> (undefined) or <<v>>. *)

\* JSON.stringify(newData, null, 2), base64-encoded; the store keeps it verbatim
Serialize(v) == <<"b64", v>>
\* the blob sha the store answers for a content
BlobSha(content) == <<"sha", content>>

NullCache == [loaded |-> FALSE, existing |-> <<>>, age |-> 0]

\* `age` of a cache: the time since the store last confirmed what it holds, by
\* a read or by a write; one ms beyond the window it is no longer counted
Aged(cch, d) ==
    IF cch.loaded THEN [cch EXCEPT !.age = Min(CacheTtl + 1, @ + d)] ELSE cch

parseDoc(c) ==
    IF c.existing # <<>> THEN <<c.existing[1].content[2]>> ELSE <<>>

\* (item = {}) => ({ ...item, count: (+item.count || 0) + 1 })
Increment(data) ==
    [count |-> (IF data = <<>> THEN 0 ELSE data[1].count) + 1]

\* the comparison as it would be with > for >=
IsoGt(a, b) == a[2] > b[2]

\* toDateJSON: new Date(t).toJSON(), an ISO-8601 string; ISO strings of the same
\* era compare as their instants do
toDateJSON(t) == <<"iso", t>>
IsoGeq(a, b) == a[2] >= b[2]

ProvisionalLease == 60000
Lease == 300000
PollDelay == 15000
RenewDelay == 120000

EmptyDoc == [active |-> <<>>, queue |-> <<>>]
QueueOf(d) == IF d.queue = <<>> THEN <<>> ELSE d.queue[1]
Queued(q, id) == \E i \in 1..Len(q) : q[i] = id

\* promotion as it would be if it took the last of the queue
PromoteLast(d, t) ==
    IF d.active = <<>> /\ d.queue # <<>> /\ Len(d.queue[1]) > 0
    THEN [active |-> <<[owner |-> d.queue[1][Len(d.queue[1])],
                        expiresAt |-> toDateJSON(t + ProvisionalLease)]>>,
          queue |-> <<SubSeq(d.queue[1], 1, Len(d.queue[1]) - 1)>>]
    ELSE d

\* the updaters as they would be if they promoted no one
PromoteNever(d, t) == d

\* promotion as it would be with the lease of a holder
PromoteLong(d, t) ==
    IF d.active = <<>> /\ d.queue # <<>> /\ Len(d.queue[1]) > 0
    THEN [active |-> <<[owner |-> Head(d.queue[1]),
                        expiresAt |-> toDateJSON(t + Lease)]>>,
          queue |-> <<Tail(d.queue[1])>>]
    ELSE d

\* "If no one is using it and there is a queue, put them on stage"
Promote(d, t) ==
    IF d.active = <<>> /\ d.queue # <<>> /\ Len(d.queue[1]) > 0
    THEN [active |-> <<[owner |-> Head(d.queue[1]),
                        expiresAt |-> toDateJSON(t + ProvisionalLease)]>>,
          queue |-> <<Tail(d.queue[1])>>]
    ELSE d

\* the waiting phase as it would be if it pulled down whoever is on stage
ReclaimAlways(d, t) == [d EXCEPT !.active = <<>>]

\* the waiting phase as it would be if it pulled nobody down
ReclaimNever(d, t) == d

\* "If someone is using it but expired, pull them down"
Reclaim(d, t) ==
    IF d.active # <<>> /\ IsoGeq(toDateJSON(t), d.active[1].expiresAt)
    THEN [d EXCEPT !.active = <<>>]
    ELSE d

\* "If still no one is using it, go on stage"
Bootstrap(d, id, t) ==
    IF d.active = <<>>
    THEN [d EXCEPT !.active = <<[owner |-> id, expiresAt |-> toDateJSON(t + Lease)]>>]
    ELSE d

\* the waiting phase as it would be if it joined the queue on every round
EnqueueAgain(d, id) ==
    IF d.active[1].owner # id
    THEN [d EXCEPT !.queue = <<Append(QueueOf(d), id)>>]
    ELSE d

\* "If the consumer on stage is not me, wait in queue"
Enqueue(d, id) ==
    IF d.active[1].owner # id
    THEN [d EXCEPT !.queue =
            <<IF Queued(QueueOf(d), id) THEN QueueOf(d) ELSE Append(QueueOf(d), id)>>]
    ELSE d

\* the updater of the waiting phase
RequestUsage(id, data, t) ==
    LET d1 == Reclaim(IF data = <<>> THEN EmptyDoc ELSE data[1], t)
    IN  IF d1.active # <<>> /\ d1.active[1].owner = id
        THEN d1
        ELSE Enqueue(Bootstrap(Promote(d1, t), id, t), id)

\* a renewal that would extend the lease of whoever is on stage
ExtendAnyone(id, data, t) ==
    LET d0 == IF data = <<>> THEN EmptyDoc ELSE data[1]
    IN  IF d0.active # <<>>
        THEN [d0 EXCEPT !.active = <<[owner |-> @[1].owner,
                                      expiresAt |-> toDateJSON(t + Lease)]>>]
        ELSE d0

\* a renewal that would go on stage when the stage is empty
ExtendOrTake(id, data, t) ==
    LET d0 == IF data = <<>> THEN EmptyDoc ELSE data[1]
    IN  IF d0.active = <<>> \/ d0.active[1].owner = id
        THEN [d0 EXCEPT !.active = <<[owner |-> id, expiresAt |-> toDateJSON(t + Lease)]>>]
        ELSE d0

\* the updater of the renewal loop
ExtendLease(id, data, t) ==
    LET d0 == IF data = <<>> THEN EmptyDoc ELSE data[1]
    IN  IF d0.active # <<>> /\ d0.active[1].owner = id
        THEN [d0 EXCEPT !.active = <<[owner |-> id, expiresAt |-> toDateJSON(t + Lease)]>>]
        ELSE d0

\* a release() that would step down and promote no one
FinishOnly(id, data, t) ==
    LET d0 == IF data = <<>> THEN EmptyDoc ELSE data[1]
    IN  IF d0.active # <<>> /\ d0.active[1].owner = id
        THEN [d0 EXCEPT !.active = <<>>]
        ELSE d0

\* a release() that would take whoever is on stage down
FinishAnyone(id, data, t) ==
    LET d0 == IF data = <<>> THEN EmptyDoc ELSE data[1]
    IN  Promote([d0 EXCEPT !.active = <<>>], t)

\* the updater of release()
FinishUsage(id, data, t) ==
    LET d0 == IF data = <<>> THEN EmptyDoc ELSE data[1]
        d1 == IF d0.active # <<>> /\ d0.active[1].owner = id
              THEN [d0 EXCEPT !.active = <<>>]
              ELSE d0
    IN  Promote(d1, t)

----------------------------------------------------------------------------
(* One call of a document reference *)

NoReq == [st |-> "none", sha |-> <<>>, content |-> <<>>, status |-> 0, overdue |-> FALSE]
NoOut == [status |-> 0, value |-> <<>>]
IdleLoad ==
    [st |-> "idle", status |-> 0, sha |-> <<>>, content |-> <<>>, late |-> {},
     overdue |-> FALSE]

IdleCall(id, ref, store, owner) ==
    [id |-> id, ref |-> ref, store |-> store, owner |-> owner,
     pc |-> "idle", op |-> "none", arg |-> <<>>,
     attempt |-> 0, timer |-> 0, holds |-> FALSE,
     req |-> NoReq, data |-> <<>>, out |-> NoOut,
     writes |-> 0, commits |-> 0, base |-> <<>>, elided |-> FALSE,
     lateJoin |-> FALSE, seen |-> {}, stale |-> FALSE]

\* the updater a call passes to updateDoc, applied to the parsed document
Apply(c, data, t) ==
    CASE c.op = "increment" -> Increment(data)
      [] c.op = "set" -> c.arg[1]
      [] c.op = "request" -> RequestUsage(c.owner, data, t)
      [] c.op = "extend" -> ExtendLease(c.owner, data, t)
      [] c.op = "finish" -> FinishUsage(c.owner, data, t)

\* the call is over: its locals are gone
Return(c, status, value) ==
    [c EXCEPT !.pc = IF status = 200 THEN "done" ELSE "failed",
              !.out = [status |-> status, value |-> value],
              !.attempt = 0, !.timer = 0, !.holds = FALSE,
              !.req = NoReq, !.data = <<>>, !.seen = {}]

Fail(c, status) == Return(c, status, <<>>)

\* the condition of ensureCache
NeedsFetch(cch, renew) ==
    \/ ~cch.loaded
    \/ renew
    \/ (cch.existing # <<>> /\ cch.existing[1].expires < 0)

\* updateDoc as it would be without the comparison of the serialized contents
ComputeAlways(c, cch, t) ==
    LET newData == Apply(c, parseDoc(cch), t)
        oldContent == IF cch.existing # <<>> THEN <<cch.existing[1].content>> ELSE <<>>
    IN  [c EXCEPT !.pc = "write",
                  !.req = [st |-> "sent",
                           sha |-> IF cch.existing # <<>>
                                   THEN <<cch.existing[1].sha>> ELSE <<>>,
                           content |-> Serialize(newData), status |-> 0,
                           overdue |-> FALSE],
                  !.data = <<newData>>, !.base = oldContent,
                  !.writes = @ + 1, !.holds = TRUE]

\* updateDoc from the return of ensureCache to the write request (or the early return)
Compute(c, cch, t) ==
    LET newData == Apply(c, parseDoc(cch), t)
        newContent == Serialize(newData)
        oldContent == IF cch.existing # <<>> THEN <<cch.existing[1].content>> ELSE <<>>
    IN  IF oldContent = <<newContent>>
        THEN Return([c EXCEPT !.base = oldContent, !.elided = TRUE,
                              !.stale = oldContent \notin c.seen], 200, <<newData>>)
        ELSE [c EXCEPT !.pc = "write",
                       !.req = [st |-> "sent",
                                sha |-> IF cch.existing # <<>>
                                        THEN <<cch.existing[1].sha>> ELSE <<>>,
                                content |-> newContent, status |-> 0,
                                overdue |-> FALSE],
                       !.data = <<newData>>, !.base = oldContent,
                       !.writes = @ + 1, !.holds = TRUE]

\* what a caller does with the cache ensureCache returned
Arrive(c, cch, t) ==
    IF c.op = "get"
    THEN Return(c, 200, parseDoc(cch))
    ELSE Compute(c, cch, t)

\* ensureCache({ renew }): await the load (cacheLoadPromise) or go on with the cache
ensureCache(c, cch, ld, t) ==
    IF NeedsFetch(cch, c.op = "get" \/ c.attempt > 0)
    THEN [c EXCEPT !.pc = "load",
                   !.lateJoin = @ \/ (ld.st # "idle" /\ c.id \in ld.late)]
    ELSE Arrive(c, cch, t)

\* an ensureCache that would call getContents for every caller, in flight or not
IssueLoadsAnew(ld, cl) ==
    [r \in DOMAIN ld |->
        IF \E t \in DOMAIN cl : cl[t].pc = "load" /\ cl[t].ref = r
        THEN [IdleLoad EXCEPT !.st = "sent"]
        ELSE ld[r]]

\* a load is issued for every reference that has a caller awaiting one and none in flight
IssueLoads(ld, cl) ==
    [r \in DOMAIN ld |->
        IF ld[r].st = "idle" /\ \E t \in DOMAIN cl : cl[t].pc = "load" /\ cl[t].ref = r
        THEN [ld[r] EXCEPT !.st = "sent"]
        ELSE ld[r]]

\* a catch that would retry on every error status
RetriableAny(status) == status # 200

\* the statuses updateDoc retries on
Retriable(status) == status = 409 \/ status = 422

\* a store that would apply every write, whatever sha is sent
createOrUpdateFileBlind(rem, req, okay) ==
    [status |-> IF okay THEN 200 ELSE 500,
     remote |-> IF okay THEN <<req.content>> ELSE rem]

\* a store that would take a write without sha as a create even when it holds a blob
createOrUpdateFileOverwrite(rem, req, okay) ==
    LET matches == req.sha = <<>> \/ (rem # <<>> /\ req.sha = <<BlobSha(rem[1])>>)
        status == IF ~okay THEN 500 ELSE IF matches THEN 200 ELSE 409
    IN  [status |-> status, remote |-> IF status = 200 THEN <<req.content>> ELSE rem]

\* octokit.repos.createOrUpdateFile at the store: the write applies only when the
\* sha sent is the sha of the blob the store holds (none sent: only when it holds none)
createOrUpdateFile(rem, req, okay) ==
    LET matches == IF rem = <<>> THEN req.sha = <<>> ELSE req.sha = <<BlobSha(rem[1])>>
        status == IF ~okay THEN 500
                  ELSE IF matches THEN 200
                  ELSE IF req.sha = <<>> THEN 422 ELSE 409
    IN  [status |-> status, remote |-> IF status = 200 THEN <<req.content>> ELSE rem]

\* octokit.repos.getContents at the store
getContents(rem, okay) ==
    IF ~okay THEN [st |-> "served", status |-> 500, sha |-> <<>>, content |-> <<>>]
    ELSE IF rem = <<>> THEN [st |-> "served", status |-> 404, sha |-> <<>>, content |-> <<>>]
    ELSE [st |-> "served", status |-> 200, sha |-> <<BlobSha(rem[1])>>, content |-> rem]

\* a load that would take every error for not-found
LoadedAnyway(cch, ld) ==
    IF ld.status = 200
    THEN [loaded |-> TRUE,
          existing |-> <<[sha |-> ld.sha[1], content |-> ld.content[1],
                          expires |-> CacheTtl]>>,
          age |-> 0]
    ELSE [loaded |-> TRUE, existing |-> <<>>, age |-> 0]

\* the cache after a load answered with ld
Loaded(cch, ld) ==
    CASE ld.status = 200 ->
            [loaded |-> TRUE,
             existing |-> <<[sha |-> ld.sha[1], content |-> ld.content[1],
                             expires |-> CacheTtl]>>,
             age |-> 0]
      [] ld.status = 404 -> [loaded |-> TRUE, existing |-> <<>>, age |-> 0]
      [] OTHER -> cch

\* the cache object after a write succeeded: cache.existing = { sha, content, expires }
Written(c) ==
    [loaded |-> TRUE,
     existing |-> <<[sha |-> BlobSha(c.req.content), content |-> c.req.content,
                     expires |-> CacheTtl]>>,
     age |-> 0]

\* a catch that would retry without the bound on the attempts
AfterWriteUnbounded(c) ==
    IF c.req.status = 200 THEN Return(c, 200, c.data)
    ELSE IF Retriable(c.req.status)
    THEN [c EXCEPT !.pc = "sleep",
                   !.timer = retryDelays[Min(c.attempt + 1, Len(retryDelays))],
                   !.attempt = @ + 1, !.req = NoReq, !.holds = FALSE]
    ELSE Fail(c, c.req.status)

\* the catch of updateDoc, and its return
AfterWrite(c) ==
    IF c.req.status = 200
    THEN Return(c, 200, c.data)
    ELSE IF Retriable(c.req.status) /\ c.attempt < MaxRetries
    THEN [c EXCEPT !.pc = "sleep", !.timer = retryDelays[c.attempt + 1],
                   !.attempt = @ + 1, !.req = NoReq, !.holds = FALSE]
    ELSE Fail(c, c.req.status)

\* a store that would run the preflight again after one that failed
ensureConnectivityAnew(conn) ==
    IF conn \in {"unset", "failed"} THEN "pending" ELSE conn

\* ensureConnectivity: the preflight is started when this.connectivityPromise
\* is not set, and the promise is kept whatever comes of it
ensureConnectivity(conn) ==
    IF conn = "unset" THEN "pending" ELSE conn

\* a preflight that would not look at the push permission
PreflightLax(readOnly, repo, branch) ==
    repo # "error" /\ branch # "error"

\* what the preflight comes to: repos.get answers with or without the push
\* permission or fails, and getBranch, asked when a branch is configured and
\* the permission was enough, answers or fails
PreflightPasses(readOnly, repo, branch) ==
    /\ repo # "error"
    /\ repo = "push" \/ readOnly
    /\ branch # "error"

\* a get() that would not await ensureConnectivity
InvokeGetUngated(c, conn, cch, ld, t) ==
    CASE conn = "ok" \/ c.op = "get" -> ensureCache(c, cch, ld, t)
      [] conn = "failed" -> Fail(c, 403)
      [] OTHER -> [c EXCEPT !.pc = "conn"]

\* get/set/update up to the first await that leaves the macrotask
Invoke(c, conn, cch, ld, t) ==
    CASE conn = "ok" -> ensureCache(c, cch, ld, t)
      [] conn = "failed" -> Fail(c, 403)
      [] OTHER -> [c EXCEPT !.pc = "conn"]

\* every call in progress has been in progress while the store held rem (the
\* calls of the lock keep no such record: seen = {})
Observe(cl, rem) ==
    [t \in DOMAIN cl |->
        IF cl[t].pc \in {"idle", "done", "failed"} \/ cl[t].seen = {} THEN cl[t]
        ELSE [cl[t] EXCEPT !.seen = @ \cup {rem}]]

----------------------------------------------------------------------------
(* Actions of the document reference *)

\* a caller calls get(), set(v) or update(updater)
Begin(t, op, arg) ==
    /\ call[t].pc = "idle"
    /\ LET c == [call[t] EXCEPT !.op = op, !.arg = arg, !.seen = {remote}]
           cl == [call EXCEPT ![t] = Invoke(c, connectivity[c.store], cache[c.ref],
                                            load[c.ref], Now)]
       IN  /\ call' = cl
           /\ load' = IssueLoads(load, cl)
           /\ connectivity' = [connectivity EXCEPT ![c.store] = ensureConnectivity(@)]
    /\ UNCHANGED <<remote, cache, faults, external>>

\* the preflight of a store is answered
ConnDone(s, okay) ==
    /\ connectivity[s] = "pending"
    /\ okay \/ faults > 0
    /\ connectivity' = [connectivity EXCEPT ![s] = IF okay THEN "ok" ELSE "failed"]
    /\ faults' = IF okay THEN faults ELSE faults - 1
    /\ LET cl == [t \in DOMAIN call |->
                    IF call[t].pc = "conn" /\ call[t].store = s
                    THEN IF okay
                         THEN ensureCache(call[t], cache[call[t].ref], load[call[t].ref], Now)
                         ELSE Fail(call[t], 403)
                    ELSE call[t]]
       IN  /\ call' = cl
           /\ load' = IssueLoads(load, cl)
    /\ UNCHANGED <<remote, cache, external>>

\* the store serves the read of a reference
FetchServe(r, okay) ==
    /\ load[r].st = "sent"
    /\ okay \/ faults > 0
    /\ load' = [load EXCEPT ![r] = getContents(remote, okay) @@ load[r]]
    /\ faults' = IF okay THEN faults ELSE faults - 1
    /\ UNCHANGED <<remote, connectivity, cache, call, external>>

\* the answer of the read arrives: the cache is replaced and every awaiting caller goes on
FetchDone(r) ==
    /\ load[r].st = "served"
    /\ LET newCache == Loaded(cache[r], load[r])
           cl == [t \in DOMAIN call |->
                    IF call[t].ref # r THEN call[t]
                    ELSE IF call[t].pc = "load"
                    THEN IF load[r].status = 500
                         THEN Fail(call[t], 500)
                         ELSE Arrive(call[t], newCache, Now)
                    ELSE IF load[r].status # 500
                    THEN [call[t] EXCEPT !.holds = FALSE]
                    ELSE call[t]]
       IN  /\ cache' = [cache EXCEPT ![r] = newCache]
           /\ call' = cl
           /\ load' = [load EXCEPT ![r] = IdleLoad]
    /\ UNCHANGED <<remote, connectivity, faults, external>>

\* the store serves the write of a caller
WriteServe(t, okay) ==
    /\ call[t].pc = "write"
    /\ call[t].req.st = "sent"
    /\ okay \/ faults > 0
    /\ LET res == createOrUpdateFile(remote, call[t].req, okay)
       IN  /\ remote' = res.remote
           /\ call' = Observe([call EXCEPT ![t].req.st = "served",
                                           ![t].req.status = res.status,
                                           ![t].commits = IF res.status = 200
                                                          THEN @ + 1 ELSE @],
                               res.remote)
    /\ faults' = IF okay THEN faults ELSE faults - 1
    /\ UNCHANGED <<connectivity, cache, load, external>>

\* the answer of the write arrives
WriteDone(t) ==
    /\ call[t].pc = "write"
    /\ call[t].req.st = "served"
    /\ LET c == call[t]
           conflict == Retriable(c.req.status) /\ c.attempt < MaxRetries
       IN  /\ call' = [call EXCEPT ![t] = AfterWrite(c)]
           /\ cache' = IF c.req.status = 200 /\ c.holds
                       THEN [cache EXCEPT ![c.ref] = Written(c)]
                       ELSE cache
           /\ load' = IF conflict /\ load[c.ref].st # "idle"
                      THEN [load EXCEPT ![c.ref].late = @ \cup {t}]
                      ELSE load
    /\ UNCHANGED <<remote, connectivity, faults, external>>

\* the retry delay is over: the next attempt starts with ensureCache({ renew: true })
Wake(t) ==
    /\ call[t].pc = "sleep"
    /\ call[t].timer = 0
    /\ LET c == call[t]
           cl == [call EXCEPT ![t] = ensureCache(c, cache[c.ref], load[c.ref], Now)]
       IN  /\ call' = cl
           /\ load' = IssueLoads(load, cl)
    /\ UNCHANGED <<remote, connectivity, cache, faults, external>>

\* d ms pass: the timers and the cache windows run down
Elapse(d) ==
    /\ call' = [t \in DOMAIN call |->
                  IF call[t].pc = "sleep"
                  THEN [call[t] EXCEPT !.timer = Max(0, @ - d)]
                  ELSE call[t]]
    /\ cache' = [r \in DOMAIN cache |->
                   IF cache[r].existing # <<>>
                   THEN [Aged(cache[r], d) EXCEPT !.existing[1].expires = Max(0 - 1, @ - d)]
                   ELSE Aged(cache[r], d)]

\* a writer that is none of the modelled callers writes the blob
External(v) ==
    /\ remote # <<Serialize(v)>>
    /\ remote' = <<Serialize(v)>>
    /\ external' = TRUE
    /\ call' = Observe(call, <<Serialize(v)>>)
    /\ UNCHANGED <<connectivity, cache, load, faults>>

----------------------------------------------------------------------------
(* The document specification: three callers, on one or on three references  *)

Callers == {"u1", "u2", "u3"}
Refs == {"r1", "r2", "r3"}
Stores == {"s1", "s2", "s3"}

\* a layout gives each caller its reference and store: the three callers share
\* one reference, or each has a reference and a store of its own
Layouts ==
    { [u1 |-> <<"r1", "s1">>, u2 |-> <<"r1", "s1">>, u3 |-> <<"r1", "s1">>],
      [u1 |-> <<"r1", "s1">>, u2 |-> <<"r2", "s2">>, u3 |-> <<"r3", "s3">>] }

Counter(n) == [count |-> n]

\* new GhkvDataStore(options): the Map `cache` of references is empty; `made`
\* counts the references doc() has built, `handed` lists what doc() returned,
\* `checks` counts the preflights started, `repo`, `branch` keep what the
\* preflight was answered, `held` is the record of what the repository
\* behind the store has held for the key, and `refused` are the callers that
\* came after the preflight had failed
GhkvDataStore(readOnly) ==
    [readOnly |-> readOnly, cache |-> {}, made |-> 0, handed |-> <<>>,
     checks |-> 0, repo |-> <<>>, branch |-> <<>>, held |-> {}, refused |-> {}]

Init ==
    /\ remote \in {<<>>, <<Serialize(Counter(0))>>}
    /\ connectivity = [s \in Stores |-> "unset"]
    /\ cache = [r \in Refs |-> NullCache]
    /\ load = [r \in Refs |-> IdleLoad]
    /\ \E l \in Layouts :
         call = [t \in Callers |-> IdleCall(t, l[t][1], l[t][2], t)]
    /\ lock = <<>>
    /\ datastore = [s \in Stores |-> GhkvDataStore(FALSE)]
    /\ faults = 0
    /\ external = FALSE

Tick ==
    /\ Elapse(TickMs)
    /\ UNCHANGED <<remote, connectivity, load, lock, datastore, faults, external>>

Next ==
    \/ \E t \in DOMAIN call : Begin(t, "get", <<>>) /\ UNCHANGED <<lock, datastore>>
    \/ \E t \in DOMAIN call : Begin(t, "increment", <<>>) /\ UNCHANGED <<lock, datastore>>
    \/ \E t \in DOMAIN call : Begin(t, "set", <<Counter(0)>>) /\ UNCHANGED <<lock, datastore>>
    \/ \E s \in Stores, okay \in BOOLEAN : ConnDone(s, okay) /\ UNCHANGED <<lock, datastore>>
    \/ \E r \in Refs, okay \in BOOLEAN : FetchServe(r, okay) /\ UNCHANGED <<lock, datastore>>
    \/ \E r \in Refs : FetchDone(r) /\ UNCHANGED <<lock, datastore>>
    \/ \E t \in DOMAIN call, okay \in BOOLEAN : WriteServe(t, okay) /\ UNCHANGED <<lock, datastore>>
    \/ \E t \in DOMAIN call : WriteDone(t) /\ UNCHANGED <<lock, datastore>>
    \/ \E t \in DOMAIN call : Wake(t) /\ UNCHANGED <<lock, datastore>>
    \/ Tick

Spec == Init /\ [][Next]_vars

----------------------------------------------------------------------------
(* The retry specification: one caller, and writers outside the model that    *)
(* keep changing the blob                                                     *)

RetryCallers == {"u1"}

RetryInit ==
    /\ remote \in {<<>>, <<Serialize(Counter(0))>>}
    /\ connectivity = [s \in Stores |-> "unset"]
    /\ cache = [r \in Refs |-> NullCache]
    /\ load = [r \in Refs |-> IdleLoad]
    /\ call = [t \in RetryCallers |-> IdleCall(t, "r1", "s1", t)]
    /\ lock = <<>>
    /\ datastore = [s \in Stores |-> GhkvDataStore(FALSE)]
    /\ faults = MaxFaults
    /\ external = FALSE

RetryNext ==
    \/ Next
    \/ \E n \in 0..MaxCount : External(Counter(n)) /\ UNCHANGED <<lock, datastore>>

RetrySpec == RetryInit /\ [][RetryNext]_vars

RetryFair ==
    /\ \A s \in Stores :
          WF_vars((\E okay \in BOOLEAN : ConnDone(s, okay)) /\ UNCHANGED <<lock, datastore>>)
    /\ \A r \in Refs :
          WF_vars((\E okay \in BOOLEAN : FetchServe(r, okay)) /\ UNCHANGED <<lock, datastore>>)
    /\ \A r \in Refs : WF_vars(FetchDone(r) /\ UNCHANGED <<lock, datastore>>)
    /\ \A t \in RetryCallers :
          WF_vars((\E okay \in BOOLEAN : WriteServe(t, okay)) /\ UNCHANGED <<lock, datastore>>)
    /\ \A t \in RetryCallers : WF_vars(WriteDone(t) /\ UNCHANGED <<lock, datastore>>)
    /\ \A t \in RetryCallers : WF_vars(Wake(t) /\ UNCHANGED <<lock, datastore>>)
    /\ WF_vars(Tick)

\* the store answers every request, the event loop runs every timer
RetryLive == RetrySpec /\ RetryFair

----------------------------------------------------------------------------
(* The resource lock: GhkvResourceLock.acquire() and the release() it returns.  *)
(* An acquirer has a document reference of its own (acquire() calls             *)
(* this.store.doc) and two threads on it: acquire()/release(), and the renewal  *)
(* loop.  What follows the return of an update() runs in the macrotask of that  *)
(* return: nothing else happens in between (Quiet).                             *)

Acquirers == {"a1", "a2"}
Main == [a1 |-> "a1.main", a2 |-> "a2.main"]
Renew == [a1 |-> "a1.renew", a2 |-> "a2.renew"]
RefOf == [a1 |-> "r1", a2 |-> "r2"]
StoreOf == [a1 |-> "s1", a2 |-> "s2"]
Threads == {Main[a] : a \in Acquirers} \cup {Renew[a] : a \in Acquirers}
OwnerOf(t) == CHOOSE a \in Acquirers : t \in {Main[a], Renew[a]}

IdleLock ==
    [phase |-> "idle", finished |-> FALSE, renew |-> "off", poll |-> 0, sleep |-> 0,
     lease |-> <<>>, queued |-> FALSE, ahead |-> {}, lapsed |-> FALSE, calls |-> 0,
     absorbed |-> {}, rejected |-> "no"]

DocOf(rem) == IF rem = <<>> THEN EmptyDoc ELSE rem[1][2]
OwnerIn(d) == IF d.active = <<>> THEN <<>> ELSE <<d.active[1].owner>>
Members(q) == {q[i] : i \in 1..Len(q)}
Returned == {"active", "releasing", "released"}

Quiet == \A t \in DOMAIN call : call[t].pc \notin {"done", "failed"}

\* the thread is free for its next update()
Rest(c) == IdleCall(c.id, c.ref, c.store, c.owner)

\* acquire() and what it started are over: nothing refers to its document
\* reference any more, nor to the lease it knew
Over(l) == l.phase \in {"released", "failed"} /\ l.renew \in {"off", "stopped"}
Gone(l) == IF Over(l) THEN [l EXCEPT !.lease = <<>>] ELSE l
Dropped(cch, lk, a) == IF Over(lk[a]) THEN [cch EXCEPT ![RefOf[a]] = NullCache] ELSE cch

\* doc.update(updater) by thread t, the other threads being as in cl
Update(cl, t, op) ==
    /\ call' = [cl EXCEPT ![t] = Invoke([cl[t] EXCEPT !.op = op],
                                        connectivity[cl[t].store], cache[cl[t].ref],
                                        load[cl[t].ref], Now)]
    /\ load' = IssueLoads(load, call')
    /\ connectivity' = [connectivity EXCEPT ![cl[t].store] = ensureConnectivity(@)]
    /\ UNCHANGED <<remote, cache, datastore, faults, external>>

\* acquire(): the waiting phase is entered, with its first update
Acquire(a) ==
    /\ Quiet
    /\ lock[a].phase = "idle"
    /\ Update(call, Main[a], "request")
    /\ lock' = [lock EXCEPT ![a].phase = "waiting"]

\* the update of the waiting phase has returned (or thrown)
Waited(a) ==
    /\ lock[a].phase = "waiting"
    /\ call[Main[a]].pc \in {"done", "failed"}
    /\ LET c == call[Main[a]]
           cl == [call EXCEPT ![Main[a]] = Rest(c)]
           state == c.out.value[1]
       IN  IF c.pc = "failed"
           THEN /\ lock' = [lock EXCEPT ![a].phase = "failed"]
                /\ call' = cl
                /\ cache' = [cache EXCEPT ![RefOf[a]] = NullCache]
                /\ UNCHANGED <<remote, connectivity, load, datastore, faults, external>>
           ELSE IF OwnerIn(state) = <<a>>
           THEN /\ lock' = [lock EXCEPT ![a].phase = "active",
                                        ![a].renew = "updating",
                                        ![a].lease = <<state.active[1].expiresAt>>]
                /\ Update(cl, Renew[a], "extend")
           ELSE /\ lock' = [lock EXCEPT ![a].phase = "polling", ![a].poll = PollDelay]
                /\ call' = cl
                /\ UNCHANGED <<remote, connectivity, cache, load, datastore, faults, external>>

\* delay(15e3) is over: the next round of the waiting loop
Poll(a) ==
    /\ Quiet
    /\ lock[a].phase = "polling"
    /\ lock[a].poll = 0
    /\ Update(call, Main[a], "request")
    /\ lock' = [lock EXCEPT ![a].phase = "waiting"]

\* a renewal loop without its try and catch: an update that throws ends it
AfterRenewalThrown(l, thrown) ==
    IF l.finished \/ thrown THEN "stopped" ELSE "sleeping"

\* the renewal loop after its update, which returned or threw: the catch logs
\* the error, `if (finished) return`, and delay(120e3) otherwise
AfterRenewal(l, thrown) ==
    IF l.finished THEN "stopped" ELSE "sleeping"

\* the update of the renewal loop has returned (or thrown, which is only logged:
\* `absorbed` keeps the statuses of the errors the loop has caught)
Renewed(a) ==
    /\ lock[a].renew = "updating"
    /\ call[Renew[a]].pc \in {"done", "failed"}
    /\ LET c == call[Renew[a]]
           mine == c.pc = "done" /\ OwnerIn(c.out.value[1]) = <<a>>
           lk == [lock EXCEPT
                    ![a].renew = AfterRenewal(lock[a], c.pc = "failed"),
                    ![a].sleep = IF AfterRenewal(lock[a], c.pc = "failed") = "sleeping"
                                 THEN RenewDelay ELSE 0,
                    ![a].lease = IF mine THEN <<c.out.value[1].active[1].expiresAt>>
                                 ELSE @,
                    ![a].absorbed = IF c.pc = "failed" THEN @ \cup {c.out.status}
                                    ELSE @]
       IN  /\ lock' = [lock EXCEPT ![a] = Gone(lk[a])]
           /\ call' = [call EXCEPT ![Renew[a]] = Rest(c)]
           /\ cache' = Dropped(cache, lk, a)
    /\ UNCHANGED <<remote, connectivity, load, datastore, faults, external>>

\* delay(120e3) is over: the next round of the renewal loop
RenewWake(a) ==
    /\ Quiet
    /\ lock[a].renew = "sleeping"
    /\ lock[a].sleep = 0
    /\ ~lock[a].finished
    /\ Update(call, Renew[a], "extend")
    /\ lock' = [lock EXCEPT ![a].renew = "updating"]

\* a release() that would not look at `finished`
NeverFinished(l) == FALSE

\* if (finished) return
AlreadyFinished(l) == l.finished

\* release(): finished = true, lastDelay.clear() ends a sleeping renewal loop,
\* and the update of the finishing phase starts; `calls` counts the calls of release()
Release(a) ==
    /\ Quiet
    /\ lock[a].phase = "active"
    /\ ~AlreadyFinished(lock[a])
    /\ Update(call, Main[a], "finish")
    /\ lock' = [lock EXCEPT ![a].phase = "releasing",
                            ![a].finished = TRUE,
                            ![a].calls = @ + 1,
                            ![a].renew = IF @ = "sleeping" THEN "stopped" ELSE @,
                            ![a].sleep = 0]

\* release() is called once more: it returns at once when `finished` is set
ReleaseAgain(a) ==
    /\ Quiet
    /\ lock[a].phase \in {"releasing", "released"}
    /\ lock[a].calls < MaxReleases
    /\ IF AlreadyFinished(lock[a])
       THEN /\ lock' = [lock EXCEPT ![a].calls = @ + 1]
            /\ UNCHANGED <<remote, connectivity, cache, load, call, datastore,
                           faults, external>>
       ELSE /\ Update(call, Main[a], "finish")
            /\ lock' = [lock EXCEPT ![a].finished = TRUE,
                                    ![a].calls = @ + 1,
                                    ![a].renew = IF @ = "sleeping" THEN "stopped" ELSE @,
                                    ![a].sleep = 0]

\* a release() that would clear `finished` when its update throws
FinishedUnlessThrown(l, thrown) == l.finished /\ ~thrown

\* `finished` after release(): nothing assigns it but `finished = true`
FinishedAfter(l, thrown) == l.finished

\* the update of release() has returned (or thrown: release() rejects then;
\* `rejected` keeps whether the store had the acquirer on stage at that time)
Released(a) ==
    /\ lock[a].phase = "releasing"
    /\ call[Main[a]].pc \in {"done", "failed"}
    /\ LET thrown == call[Main[a]].pc = "failed"
           lk == [lock EXCEPT
                    ![a].phase = "released",
                    ![a].finished = FinishedAfter(lock[a], thrown),
                    ![a].rejected = IF ~thrown THEN @
                                    ELSE IF OwnerIn(DocOf(remote)) = <<a>>
                                    THEN "held" ELSE "lost"]
       IN  /\ lock' = [lock EXCEPT ![a] = Gone(lk[a])]
           /\ cache' = Dropped(cache, lk, a)
    /\ call' = [call EXCEPT ![Main[a]] = Rest(call[Main[a]])]
    /\ UNCHANGED <<remote, connectivity, load, datastore, faults, external>>

\* What a write that the store applied did to the acquirers: the writer joined
\* the queue behind the owners that were in it, and an owner was taken off the
\* stage that had not yet seen itself on it.
Noted(lk, t, rem, rem2) ==
    LET before == DocOf(rem)
        after == DocOf(rem2)
        w == OwnerOf(t)
    IN  [a \in DOMAIN lk |->
           LET joined == /\ a = w
                         /\ ~lk[a].queued
                         /\ ~Queued(QueueOf(before), a)
                         /\ Queued(QueueOf(after), a)
               pulled == /\ rem2 # rem
                         /\ OwnerIn(before) = <<a>>
                         /\ OwnerIn(after) # <<a>>
                         /\ lk[a].phase \notin Returned
           IN  [lk[a] EXCEPT !.queued = @ \/ joined,
                             !.ahead = IF joined THEN Members(QueueOf(before)) ELSE @,
                             !.lapsed = @ \/ pulled]]

\* d ms pass: an instant the state holds is d ms nearer to the past; an instant
\* that is over is kept as Now, the updaters only ask whether Now has reached it
Past(stamp, d) == <<stamp[1], Max(Now, stamp[2] - d)>>
PastDoc(v, d) ==
    IF v.active = <<>> THEN v
    ELSE [v EXCEPT !.active = <<[@[1] EXCEPT !.expiresAt = Past(@, d)]>>]
PastContent(c, d) == IF c = <<>> THEN c ELSE <<c[1], PastDoc(c[2], d)>>
PastSha(h, d) == <<h[1], PastContent(h[2], d)>>
PastOptDoc(o, d) == IF o = <<>> THEN o ELSE <<PastDoc(o[1], d)>>
PastOptContent(o, d) == IF o = <<>> THEN o ELSE <<PastContent(o[1], d)>>
PastOptSha(o, d) == IF o = <<>> THEN o ELSE <<PastSha(o[1], d)>>
PastOptStamp(o, d) == IF o = <<>> THEN o ELSE <<Past(o[1], d)>>

LockElapse(d) ==
    /\ remote' = PastOptContent(remote, d)
    /\ cache' = [r \in DOMAIN cache |->
                   IF cache[r].existing = <<>> THEN Aged(cache[r], d)
                   ELSE [Aged(cache[r], d) EXCEPT !.existing =
                           <<[sha |-> PastSha(@[1].sha, d),
                              content |-> PastContent(@[1].content, d),
                              expires |-> Max(0 - 1, @[1].expires - d)]>>]]
    /\ load' = [r \in DOMAIN load |->
                  [load[r] EXCEPT !.sha = PastOptSha(@, d),
                                  !.content = PastOptContent(@, d),
                                  !.overdue = load[r].st # "idle"]]
    /\ call' = [t \in DOMAIN call |->
                  [call[t] EXCEPT !.timer = Max(0, @ - d),
                                  !.req.sha = PastOptSha(@, d),
                                  !.req.content = PastContent(@, d),
                                  !.req.overdue = call[t].req.st # "none",
                                  !.data = PastOptDoc(@, d),
                                  !.out.value = PastOptDoc(@, d),
                                  !.base = PastOptContent(@, d),
                                  !.seen = {PastOptContent(o, d) : o \in @}]]
    /\ lock' = [a \in DOMAIN lock |->
                  [lock[a] EXCEPT !.poll = Max(0, @ - d),
                                  !.sleep = Max(0, @ - d),
                                  !.lease = PastOptStamp(@, d)]]

----------------------------------------------------------------------------
(* The lock specification: two acquirers of one resource, which a holder that  *)
(* has crashed may still hold                                                  *)

\* the document of a resource whose holder x has crashed, its lease running
HeldBy(x, left) ==
    [active |-> <<[owner |-> x, expiresAt |-> toDateJSON(Now + left)]>>, queue |-> <<>>]

LockInit ==
    /\ remote \in {<<>>, <<Serialize(HeldBy("x", CrashedLease))>>}
    /\ connectivity = [s \in Stores |-> "ok"]
    /\ cache = [r \in Refs |-> NullCache]
    /\ load = [r \in Refs |-> IdleLoad]
    /\ call = [t \in Threads |->
                 IdleCall(t, RefOf[OwnerOf(t)], StoreOf[OwnerOf(t)], OwnerOf(t))]
    /\ lock = [a \in Acquirers |-> IdleLock]
    /\ datastore = [s \in Stores |-> GhkvDataStore(FALSE)]
    /\ faults = 0
    /\ external = FALSE

\* a request in flight when the clock steps is answered before its next step,
\* and so does a timer fire that is due
Prompt ==
    /\ \A r \in DOMAIN load : ~load[r].overdue
    /\ \A t \in DOMAIN call :
          /\ ~call[t].req.overdue
          /\ ~(call[t].pc = "sleep" /\ call[t].timer = 0)
    /\ \A a \in DOMAIN lock :
          /\ ~(lock[a].phase = "polling" /\ lock[a].poll = 0)
          /\ ~(lock[a].renew = "sleeping" /\ lock[a].sleep = 0)

\* the holder works for longer than the first renewal takes: it calls release()
\* while the renewal loop sleeps
Working(a) == lock[a].renew = "sleeping"

LockTick ==
    /\ Quiet
    /\ Prompt
    /\ LockElapse(LockStep)
    /\ UNCHANGED <<connectivity, datastore, faults, external>>

\* what the acquirers and the store do
LockMoves ==
    \/ \E a \in Acquirers : Acquire(a)
    \/ \E a \in Acquirers : Waited(a)
    \/ \E a \in Acquirers : Poll(a)
    \/ \E a \in Acquirers : Renewed(a)
    \/ \E a \in Acquirers : RenewWake(a)
    \/ \E a \in Acquirers : Working(a) /\ Release(a)
    \/ \E a \in Acquirers : Released(a)
    \/ \E r \in Refs, okay \in BOOLEAN : Quiet /\ FetchServe(r, okay) /\ UNCHANGED <<lock, datastore>>
    \/ \E r \in Refs : Quiet /\ FetchDone(r) /\ UNCHANGED <<lock, datastore>>
    \/ \E t \in DOMAIN call, okay \in BOOLEAN :
          /\ Quiet /\ WriteServe(t, okay)
          /\ lock' = Noted(lock, t, remote, remote')
          /\ UNCHANGED datastore
    \/ \E t \in DOMAIN call : Quiet /\ WriteDone(t) /\ UNCHANGED <<lock, datastore>>
    \/ \E t \in DOMAIN call : Quiet /\ Wake(t) /\ UNCHANGED <<lock, datastore>>

LockNext == LockMoves \/ LockTick

LockSpec == LockInit /\ [][LockNext]_vars

----------------------------------------------------------------------------
(* Properties of the document reference *)

IsUpdate(c) == c.op \notin {"none", "get"}

\* C1: every update that returned successfully has had its result committed
\* exactly once by a compare-and-swap write of its own; a call that returned
\* without writing lost nothing only if the store held the value it returned
\* at some instant while the call was in progress.
UpdatesCommittedOnce ==
    \A t \in DOMAIN call :
        (call[t].pc = "done" /\ IsUpdate(call[t])) =>
            \/ call[t].commits = 1
            \/ call[t].commits = 0 /\ call[t].elided /\ ~call[t].stale

AllIncremented ==
    \A t \in DOMAIN call : call[t].op = "increment" /\ call[t].pc = "done"

\* C2: when the three calls are increments and all three have returned
\* successfully, the store holds count = 3.
CounterConverges ==
    AllIncremented => remote = <<Serialize(Counter(3))>>

\* three increments through one shared reference have returned, one of them
\* after a conflict
CounterConvergesWitness ==
    /\ AllIncremented
    /\ \A t \in DOMAIN call : call[t].ref = "r1"
    /\ \E t \in DOMAIN call : call[t].writes > 1

\* C7: the attempt after a conflict works on a read issued after the conflict
\* was observed, never on a read that was in flight when it was observed.
RetryReadsAfterConflict ==
    \A t \in DOMAIN call : ~call[t].lateJoin

\* C8: a call makes at most MaxRetries + 1 write attempts, it throws a
\* conflict only after all of them, and a call that started returns or throws.
BoundedRetries ==
    /\ [](\A t \in DOMAIN call :
            /\ call[t].writes <= MaxRetries + 1
            /\ call[t].attempt <= MaxRetries
            /\ (call[t].pc = "failed" /\ Retriable(call[t].out.status))
                  => call[t].writes = MaxRetries + 1)
    /\ \A t \in RetryCallers :
          (call[t].pc # "idle") ~> (call[t].pc \in {"done", "failed"})

\* the call has thrown the conflict of its last attempt
BoundedRetriesWitness ==
    \E t \in DOMAIN call :
        /\ call[t].pc = "failed"
        /\ Retriable(call[t].out.status)
        /\ call[t].writes = MaxRetries + 1

NoOpElided ==
    [][\A t \in DOMAIN call :
         LET c == call[t]
             d == call'[t]
             cch == cache[c.ref]
         IN  /\ (c.pc # "write" /\ d.pc = "write") => d.base # <<d.req.content>>
             /\ (~c.elided /\ d.elided)
                   => /\ d.pc = "done"
                      /\ d.writes = c.writes
                      /\ remote' = remote
                      /\ d.base = <<Serialize(d.out.value[1])>>
             /\ (/\ c.pc = "idle" /\ d.pc # "idle" /\ IsUpdate(d)
                 /\ connectivity[c.store] = "ok"
                 /\ cch.existing # <<>>
                 /\ cch.existing[1].expires >= 0
                 /\ cch.existing[1].content = Serialize(Apply(d, parseDoc(cch), Now)))
                   => d.elided /\ d.writes = 0 /\ remote' = remote]_vars

\* a set has committed, and the same set on the same reference has then
\* returned without a write
NoOpElidedWitness ==
    \E t, u \in DOMAIN call :
        /\ t # u
        /\ call[t].ref = call[u].ref
        /\ call[t].op = "set" /\ call[t].pc = "done" /\ call[t].commits = 1
        /\ call[u].op = "set" /\ call[u].pc = "done"
        /\ call[u].elided /\ call[u].writes = 0
        /\ remote = <<Serialize(call[u].out.value[1])>>

\* The lock under fairness.  A read may be in flight when the clock steps, a
\* write is answered within the step in which it was sent.
LiveTick ==
    /\ \A t \in DOMAIN call : call[t].req.st = "none"
    /\ LockTick

LiveNext == LockMoves \/ LiveTick

\* the store answers every request of the acquirers, the event loop runs every
\* continuation and every timer, time goes on, and a holder at work calls
\* release() in the end
LockFair ==
    /\ \A a \in Acquirers :
          /\ WF_vars(Waited(a))
          /\ WF_vars(Poll(a))
          /\ WF_vars(Renewed(a))
          /\ WF_vars(RenewWake(a))
          /\ SF_vars(Working(a) /\ Release(a))
          /\ WF_vars(Released(a))
    /\ \A r \in {RefOf[a] : a \in Acquirers} :
          /\ WF_vars(\E okay \in BOOLEAN : Quiet /\ FetchServe(r, okay) /\ UNCHANGED <<lock, datastore>>)
          /\ WF_vars(Quiet /\ FetchDone(r) /\ UNCHANGED <<lock, datastore>>)
    /\ \A t \in Threads :
          /\ WF_vars(\E okay \in BOOLEAN :
                        /\ Quiet /\ WriteServe(t, okay)
                        /\ lock' = Noted(lock, t, remote, remote')
                        /\ UNCHANGED datastore)
          /\ WF_vars(Quiet /\ WriteDone(t) /\ UNCHANGED <<lock, datastore>>)
          /\ WF_vars(Quiet /\ Wake(t) /\ UNCHANGED <<lock, datastore>>)
    /\ WF_vars(LiveTick)

LockLive == LockInit /\ [][LiveNext]_vars /\ LockFair

----------------------------------------------------------------------------
(* Properties of the resource lock *)

Holding == {a \in Acquirers : lock[a].phase = "active"}

\* the lease the holder knows to be its own has not expired
InTime(a) == lock[a].lease # <<>> /\ lock[a].lease[1][2] > Now

\* the active entry of the document has expired
Lapsed(d) == d.active # <<>> /\ d.active[1].expiresAt[2] <= Now

\* the store applies the write of thread t in this step
Commits(t) ==
    /\ call[t].req.st = "sent"
    /\ call'[t].req.st = "served"
    /\ call'[t].req.status = 200

\* C3: as long as every acquirer in its active phase holds a lease that has not
\* expired, at most one acquirer is in its active phase, and the document names
\* it as active.owner.
MutualExclusion ==
    (\A a \in Holding : InTime(a)) =>
        /\ Cardinality(Holding) <= 1
        /\ \A a \in Holding : OwnerIn(DocOf(remote)) = <<a>>

\* a holder whose renewal loop sleeps on a running lease, the other acquirer
\* polling in the queue behind it
MutualExclusionWitness ==
    \E a, b \in Acquirers :
        /\ a # b
        /\ lock[a].phase = "active" /\ InTime(a) /\ lock[a].renew = "sleeping"
        /\ OwnerIn(DocOf(remote)) = <<a>>
        /\ lock[b].phase = "polling"
        /\ QueueOf(DocOf(remote)) = <<b>>

\* C4 as stated: an acquirer returns from acquire() only after every acquirer
\* that was in the queue when it was first appended has returned (or thrown).
FifoOrder ==
    \A a, b \in Acquirers :
        (lock[a].phase \in Returned /\ b \in lock[a].ahead)
            => lock[b].phase \in Returned \cup {"failed"}

\* what a step may do to the queue and to the owner on stage
QueueStep ==
    LET q == QueueOf(DocOf(remote))
        q2 == QueueOf(DocOf(remote'))
        o == OwnerIn(DocOf(remote))
        o2 == OwnerIn(DocOf(remote'))
    IN  IF \E t \in DOMAIN call : Commits(t)
        THEN \A t \in DOMAIN call : Commits(t) =>
               LET w == call[t].owner
                   joins == call[t].op = "request" /\ w \notin Members(q)
               IN  \/ /\ q2 \in {q} \cup (IF joins THEN {Append(q, w)} ELSE {})
                      /\ o2 \in {o} \cup (IF q # <<>> THEN {}
                                          ELSE IF call[t].op = "request"
                                          THEN {<<w>>} ELSE {<<>>})
                   \/ /\ q # <<>>
                      /\ o2 = <<Head(q)>>
                      /\ q2 \in {Tail(q)} \cup
                                (IF joins THEN {Append(Tail(q), w)} ELSE {})
        ELSE q2 = q /\ o2 = o

\* C4: a write appends its owner at the tail of the queue only, reorders
\* nothing, and a new owner is the head of the queue (the writer itself when the
\* queue is empty); an acquirer returns only after every acquirer that was in
\* the queue when it was first appended has returned or thrown, or was pulled
\* down from the stage before it saw itself there.
FifoDiscipline ==
    /\ [](\A a, b \in Acquirers :
            (lock[a].phase \in Returned /\ b \in lock[a].ahead)
                => (lock[b].phase \in Returned \cup {"failed"} \/ lock[b].lapsed))
    /\ [][QueueStep]_vars

\* b was in the queue when a joined it; b has held the resource and released
\* it, and a holds it now
FifoDisciplineWitness ==
    \E a, b \in Acquirers :
        /\ b \in lock[a].ahead
        /\ lock[b].phase = "released" /\ ~lock[b].lapsed
        /\ lock[a].phase = "active" /\ ~lock[a].lapsed
        /\ OwnerIn(DocOf(remote)) = <<a>>

----------------------------------------------------------------------------
(* Properties of set() and get() *)

\* C11: every set(v) that has returned successfully returned v, and the store
\* held v at some instant between the call's start and its return: the call
\* committed v by a compare-and-swap write of its own, or it wrote nothing
\* because the store already held v while it ran.
SetLastWriteWins ==
    \A t \in DOMAIN call :
        (call[t].op = "set" /\ call[t].pc = "done") =>
            /\ call[t].out.value = call[t].arg
            /\ \/ call[t].commits >= 1
               \/ call[t].elided /\ ~call[t].stale

\* C12: a get() answers from a read of the store that is issued after the
\* get() was invoked: when the call comes to ensureCache no read of its
\* reference is in flight and one is issued in that step; it returns only what
\* that read brought (the parsed content, or absent on 404), never the cache
\* as it was, and a read answered with another error makes it throw.
GetReadsFresh ==
    [][\A t \in DOMAIN call :
         LET c == call[t]
             d == call'[t]
             ld == load[c.ref]
         IN  /\ (d.op = "get" /\ c.pc # "load" /\ d.pc = "load")
                   => ld.st = "idle" /\ load'[c.ref].st = "sent"
             /\ (d.op = "get" /\ c.pc # "done" /\ d.pc = "done")
                   => /\ c.pc = "load"
                      /\ ld.st = "served"
                      /\ ld.status \in {200, 404}
                      /\ d.out.value =
                            (IF ld.status = 200 THEN <<ld.content[1][2]>> ELSE <<>>)
             /\ (/\ c.op = "get" /\ c.pc = "load"
                 /\ ld.st = "served" /\ ld.status \notin {200, 404}
                 /\ load'[c.ref].st # "served")
                   => d.pc = "failed" /\ d.out.status = ld.status]_vars

----------------------------------------------------------------------------
(* The store: doc() *)

Keys == {"k1", "k2"}

\* store.doc(key): the reference the Map `cache` holds for the key, or else a
\* new reference with a cache and a load slot of its own; the new reference is
\* returned and the Map is left as it was
doc(st, key) ==
    LET found == {e \in st.cache : e[1] = key}
        ref == IF found # {} THEN (CHOOSE e \in found : TRUE)[2] ELSE st.made + 1
    IN  [st EXCEPT !.made = IF found # {} THEN @ ELSE @ + 1,
                   !.handed = Append(@, <<key, ref>>)]

Doc(s, key) ==
    /\ Len(datastore[s].handed) < MaxDocs
    /\ datastore' = [datastore EXCEPT ![s] = doc(@, key)]
    /\ UNCHANGED <<remote, connectivity, cache, load, call, lock, faults, external>>

DocInit == Init

DocNext == \E s \in Stores, key \in Keys : Doc(s, key)

DocSpec == DocInit /\ [][DocNext]_vars

\* C13: doc(key) is memoized per store: two calls of doc() on one store with
\* the same key return the same reference, so that a store has built at most
\* one reference, with one cache and one load slot, for each key asked for.
DocMemoized ==
    \A s \in Stores :
        LET h == datastore[s].handed
        IN  /\ \A i, j \in DOMAIN h : h[i][1] = h[j][1] => h[i][2] = h[j][2]
            /\ datastore[s].made = Cardinality({h[i][1] : i \in DOMAIN h})

----------------------------------------------------------------------------
(* The store: the preflight *)

\* two callers on one store, through one reference or through two
GateCallers == {"u1", "u2"}

GateInit ==
    /\ remote \in {<<>>, <<Serialize(Counter(0))>>}
    /\ connectivity = [s \in Stores |-> "unset"]
    /\ cache = [r \in Refs |-> NullCache]
    /\ load = [r \in Refs |-> IdleLoad]
    /\ \E r \in {"r1", "r2"} :
         call = [t \in GateCallers |->
                    IdleCall(t, IF t = "u1" THEN "r1" ELSE r, "s1", t)]
    /\ lock = <<>>
    /\ \E readOnly \in BOOLEAN :
         datastore = [s \in Stores |->
                        [GhkvDataStore(s = "s1" /\ readOnly) EXCEPT !.held = {remote}]]
    /\ faults = MaxFaults
    /\ external = FALSE

\* a caller calls get(), set(v) or update(updater); the preflights started are counted
GateBegin(t, op, arg) ==
    /\ Begin(t, op, arg)
    /\ LET s == call[t].store
       IN  datastore' =
             [datastore EXCEPT ![s].checks =
                 IF connectivity[s] # "pending" /\ connectivity'[s] = "pending"
                 THEN @ + 1 ELSE @,
                               ![s].refused =
                 IF connectivity[s] = "failed" THEN @ \cup {t} ELSE @]
    /\ UNCHANGED lock

\* the preflight of a store is answered: repos.get with the push permission,
\* without it or with an error, and getBranch, when it is asked, with the branch
\* or with an error
Preflight(s, repo, branch) ==
    LET readOnly == datastore[s].readOnly
        asked == branch # "none" /\ repo # "error" /\ (repo = "push" \/ readOnly)
        okay == PreflightPasses(readOnly, repo, IF asked THEN branch ELSE "none")
    IN  /\ ConnDone(s, okay)
        /\ datastore' = [datastore EXCEPT ![s].repo = <<repo>>,
                                          ![s].branch = IF asked THEN <<branch>> ELSE <<>>]
        /\ UNCHANGED lock

\* the store applies a write only for a caller that may push; what it holds
\* then is put on record
GateWriteServe(t, okay) ==
    /\ okay => datastore[call[t].store].repo = <<"push">>
    /\ WriteServe(t, okay)
    /\ datastore' = [s \in Stores |-> [datastore[s] EXCEPT !.held = @ \cup {remote'}]]
    /\ UNCHANGED lock

GateNext ==
    \/ \E t \in DOMAIN call : GateBegin(t, "get", <<>>)
    \/ \E t \in DOMAIN call : GateBegin(t, "increment", <<>>)
    \/ \E t \in DOMAIN call : GateBegin(t, "set", <<Counter(0)>>)
    \/ \E s \in Stores, repo \in {"push", "pull", "error"},
          branch \in {"none", "ok", "error"} : Preflight(s, repo, branch)
    \/ \E r \in Refs, okay \in BOOLEAN : FetchServe(r, okay) /\ UNCHANGED <<lock, datastore>>
    \/ \E r \in Refs : FetchDone(r) /\ UNCHANGED <<lock, datastore>>
    \/ \E t \in DOMAIN call, okay \in BOOLEAN : GateWriteServe(t, okay)
    \/ \E t \in DOMAIN call : WriteDone(t) /\ UNCHANGED <<lock, datastore>>
    \/ \E t \in DOMAIN call : Wake(t) /\ UNCHANGED <<lock, datastore>>
    \/ Tick

GateSpec == GateInit /\ [][GateNext]_vars

\* C14: a store starts its preflight at most once; a call that comes while it
\* runs waits for that same preflight, and all that wait go on or fail together
\* when it is answered; its outcome is kept: after a success every call goes
\* on, after a failure every call fails at once with the preflight's error,
\* and no preflight is started again.
PreflightOnce ==
    [][\A s \in Stores :
         /\ datastore'[s].checks <= 1
         /\ connectivity[s] \in {"ok", "failed"} => connectivity'[s] = connectivity[s]
         /\ connectivity[s] = "pending" => connectivity'[s] # "unset"
         /\ \A t \in DOMAIN call :
               LET c == call[t]
                   d == call'[t]
               IN  c.store = s =>
                     /\ (c.pc = "idle" /\ d.pc # "idle") =>
                           /\ connectivity[s] \in {"unset", "pending"} => d.pc = "conn"
                           /\ connectivity[s] = "ok" => d.pc \notin {"conn", "failed"}
                           /\ connectivity[s] = "failed" =>
                                 d.pc = "failed" /\ d.out.status = 403
                     /\ (c.pc = "conn" /\ connectivity'[s] # "pending") =>
                           /\ connectivity[s] = "pending"
                           /\ d.pc # "conn"
                           /\ connectivity'[s] = "failed" =>
                                 d.pc = "failed" /\ d.out.status = 403
                     /\ (c.pc = "conn" /\ connectivity'[s] = "pending") => d = c]_vars

\* two calls waited for one preflight and failed with it
PreflightOnceWitness ==
    \E t, u \in DOMAIN call :
        /\ t # u
        /\ call[t].store = call[u].store
        /\ call[t].pc = "failed" /\ call[t].out.status = 403
        /\ call[u].pc = "failed" /\ call[u].out.status = 403
        /\ connectivity[call[t].store] = "failed"
        /\ datastore[call[t].store].checks = 1
        /\ faults = 0

\* C15: no call reads or writes before the preflight of its store has passed.
\* The preflight fails when repos.get fails, when it grants no push permission
\* to a store that is not read-only, or when the branch cannot be got; then
\* every set() and update() on the store fails with the preflight's error and
\* no write of theirs is ever sent.  On a read-only store the missing push
\* permission alone lets the preflight pass.
PreflightGates ==
    \A s \in Stores :
        LET st == datastore[s]
            mine == {t \in DOMAIN call : call[t].store = s}
        IN  /\ connectivity[s] \in {"unset", "pending"} =>
                  \A t \in mine : call[t].pc \in {"idle", "conn"} /\ call[t].writes = 0
            /\ (st.repo = <<"error">> \/ st.branch = <<"error">>
                   \/ (st.repo = <<"pull">> /\ ~st.readOnly))
                  => connectivity[s] = "failed"
            /\ (st.repo = <<"pull">> /\ st.readOnly /\ st.branch # <<"error">>)
                  => connectivity[s] = "ok"
            /\ (st.repo = <<"push">> /\ st.branch # <<"error">>)
                  => connectivity[s] = "ok"
            /\ connectivity[s] = "failed" =>
                  \A t \in mine :
                      /\ call[t].writes = 0
                      /\ call[t].req.st = "none"
                      /\ call[t].pc # "idle" =>
                            call[t].pc = "failed" /\ call[t].out.status = 403

\* the store is not read-only and repos.get granted no push permission: a set()
\* that waited for the preflight and an update() called after it have failed
PreflightGatesWitness ==
    \E t, u \in DOMAIN call :
        /\ call[t].store = call[u].store
        /\ datastore[call[t].store].repo = <<"pull">>
        /\ ~datastore[call[t].store].readOnly
        /\ call[t].op = "set" /\ call[t].pc = "failed"
        /\ call[u].op = "increment" /\ call[u].pc = "failed"
        /\ faults = 0

----------------------------------------------------------------------------
(* Properties of release() and of the renewal loop *)

\* C16: the updater of release(), run by the owner on stage, removes the active
\* entry; when the queue has members it makes the head of the queue active with
\* a lease of 60 s and leaves the rest as the queue, and when the queue is empty
\* it leaves no active entry.  The write the store applies for it is this
\* result, on the very document the updater ran on: both happen in one write.
ReleaseHandsOver ==
    [][\A t \in DOMAIN call :
         LET c == call[t]
             d == call'[t]
             a == c.owner
         IN  /\ (/\ d.op = "finish" /\ c.pc # "write" /\ d.pc = "write"
                 /\ OwnerIn(DocOf(d.base)) = <<a>>)
                   => LET b == DocOf(d.base)
                          q == QueueOf(b)
                      IN  /\ d.req.content = Serialize(d.data[1])
                          /\ d.data[1] =
                               IF q = <<>> THEN [b EXCEPT !.active = <<>>]
                               ELSE [active |-> <<[owner |-> Head(q),
                                                   expiresAt |-> toDateJSON(Now + 60000)]>>,
                                     queue |-> <<Tail(q)>>]
             /\ (c.op = "finish" /\ Commits(t) /\ OwnerIn(DocOf(remote)) = <<a>>)
                   => LET q == QueueOf(DocOf(remote))
                          n == DocOf(remote')
                      IN  /\ remote = c.base
                          /\ remote' = <<c.req.content>>
                          /\ OwnerIn(n) = IF q = <<>> THEN <<>> ELSE <<Head(q)>>
                          /\ QueueOf(n) = IF q = <<>> THEN <<>> ELSE Tail(q)]_vars

\* the store has applied the write of a release(): the acquirer that was first
\* in the queue is on stage with the provisional lease, and the queue is empty
ReleaseHandsOverWitness ==
    \E a, b \in Acquirers :
        /\ a # b
        /\ lock[a].phase = "releasing"
        /\ call[Main[a]].op = "finish"
        /\ call[Main[a]].req.st = "served" /\ call[Main[a]].req.status = 200
        /\ remote = <<call[Main[a]].req.content>>
        /\ OwnerIn(DocOf(remote)) = <<b>>
        /\ DocOf(remote).active[1].expiresAt = toDateJSON(Now + 60000)
        /\ DocOf(remote).queue = <<<<>>>>

\* The lock with one hasty acquirer, whose holder calls release() at any time of
\* its active phase, also while an update of its renewal loop is in progress,
\* and more than once.
Hasty == "a1"

ReleaseNext ==
    \/ LiveNext
    \/ Release(Hasty)
    \/ ReleaseAgain(Hasty)

ReleaseSpec == LockInit /\ [][ReleaseNext]_vars

\* C17: a call of release() after the first one starts no update and changes
\* nothing, in the store or in the acquirer, and returns; the update of the
\* finishing phase is started by the first call only.
ReleaseIdempotent ==
    [][\A a \in Acquirers :
         /\ (lock[a].calls >= 1 /\ lock'[a].calls > lock[a].calls)
               => /\ lock' = [lock EXCEPT ![a].calls = @ + 1]
                  /\ UNCHANGED <<remote, connectivity, cache, load, call>>
         /\ (call[Main[a]].op # "finish" /\ call'[Main[a]].op = "finish")
               => lock[a].calls = 0 /\ lock'[a].calls = 1]_vars

\* release() was called again while the update of the first call was in
\* flight, and has returned
ReleaseIdempotentWitness ==
    \E a \in Acquirers :
        /\ lock[a].calls = 2
        /\ lock[a].phase = "releasing"
        /\ call[Main[a]].pc = "write"
        /\ call[Main[a]].writes = 1

\* C18: the updater of the renewal loop sets active.expiresAt to 300 s from now
\* when the document it runs on names its own acquirer as active.owner, and
\* returns the document as it is otherwise, so that nothing is written; a
\* renewal write that the store applies leaves active.owner and the queue as
\* they were.
RenewalFrame ==
    [][\A a \in Acquirers :
         LET c == call[Renew[a]]
             d == call'[Renew[a]]
             b == DocOf(d.base)
             extended == [b EXCEPT !.active = <<[owner |-> a,
                                                 expiresAt |-> toDateJSON(Now + 300000)]>>]
             result == IF OwnerIn(b) = <<a>> THEN extended ELSE b
         IN  /\ (d.op = "extend" /\ c.pc # "write" /\ d.pc = "write")
                   => /\ d.data = <<result>>
                      /\ d.req.content = Serialize(result)
                      /\ OwnerIn(b) = <<a>>
             /\ (d.op = "extend" /\ ~c.elided /\ d.elided)
                   => d.out.value = <<result>> /\ result = b
             /\ (c.op = "extend" /\ Commits(Renew[a]))
                   => /\ remote' = <<c.req.content>>
                      /\ OwnerIn(DocOf(remote')) = OwnerIn(DocOf(remote))
                      /\ DocOf(remote').queue = DocOf(remote).queue
                      /\ OwnerIn(DocOf(remote)) = <<a>>]_vars

\* a renewal has run on a document that names another owner and has returned
\* it unchanged, and another renewal has extended its own lease in the store
RenewalFrameWitness ==
    \E a, b \in Acquirers :
        /\ call[Renew[a]].op = "extend"
        /\ call[Renew[a]].pc = "done"
        /\ call[Renew[a]].elided
        /\ OwnerIn(call[Renew[a]].out.value[1]) \notin {<<>>, <<a>>}
        /\ lock[b].phase = "active"
        /\ lock[b].lease = <<toDateJSON(Now + 300000)>>
        /\ OwnerIn(DocOf(remote)) = <<b>>

\* C19: once release() has been called the renewal loop starts no update more;
\* the write of release() leaves another owner or none on stage, and an
\* acquirer gets on stage only in its waiting phase, so that after the write of
\* its release() no write, of a renewal in flight or of anyone, names it as
\* active.owner again.
ReleaseStays ==
    [][\A a \in Acquirers :
         /\ (lock[a].finished /\ call[Renew[a]].pc = "idle")
               => call'[Renew[a]].pc = "idle"
         /\ (call[Main[a]].op = "finish" /\ Commits(Main[a]))
               => OwnerIn(DocOf(remote')) # <<a>>
         /\ (OwnerIn(DocOf(remote)) # <<a>> /\ OwnerIn(DocOf(remote')) = <<a>>)
               => lock[a].phase \in {"waiting", "polling"}
         /\ (lock[a].phase \in {"releasing", "released"} /\ OwnerIn(DocOf(remote)) # <<a>>)
               => OwnerIn(DocOf(remote')) # <<a>>]_vars

\* release() was called while a write of the renewal loop was in flight: the
\* store applied the write of release() first, the renewal met the conflict,
\* read again and returned without a write
ReleaseStaysWitness ==
    \E a \in Acquirers :
        /\ lock[a].finished
        /\ lock[a].phase \in {"releasing", "released"}
        /\ call[Renew[a]].op = "extend"
        /\ call[Renew[a]].pc = "done"
        /\ call[Renew[a]].writes >= 1
        /\ call[Renew[a]].commits = 0
        /\ call[Renew[a]].elided
        /\ OwnerIn(DocOf(remote)) # <<a>>

----------------------------------------------------------------------------
(* Properties of the cache *)

\* C20: the updater of an update() or set() is applied to a cache entry, a
\* fetched value or a confirmed absence, that the store confirmed at most 5 s
\* before: a call that finds an older entry reads the store first.
CacheWindow ==
    [][\A t \in DOMAIN call :
         LET c == call[t]
             d == call'[t]
             cch == cache'[c.ref]
         IN  (/\ IsUpdate(d)
              /\ \/ c.pc # "write" /\ d.pc = "write"
                 \/ ~c.elided /\ d.elided)
                => /\ cch.loaded
                   /\ cch.age <= 5000
                   /\ d.base = (IF cch.existing = <<>> THEN <<>>
                                ELSE <<cch.existing[1].content>>)]_vars

----------------------------------------------------------------------------
(* Properties of concurrent writers and of the cache *)

\* C21: a write sent without a version creates the blob when the store holds
\* none, and is refused as a conflict, the store unchanged, when it holds one:
\* of two creates one succeeds.  The call whose create was refused does not
\* throw: it goes on to its next attempt, which computes on what a read
\* delivers; no call throws, and when two increments have returned (the third
\* caller writing nothing) the store holds a count of 2.
CreateRace ==
    /\ [][\A t \in DOMAIN call :
            LET c == call[t]
                d == call'[t]
            IN  /\ (/\ c.pc = "write" /\ c.req.st = "sent" /\ d.req.st = "served"
                    /\ c.req.sha = <<>>)
                      => IF remote = <<>>
                         THEN d.req.status = 200 /\ remote' = <<c.req.content>>
                         ELSE d.req.status = 422 /\ remote' = remote
                /\ (/\ c.pc = "write" /\ c.req.st = "served" /\ c.req.status = 422
                    /\ (d.pc # "write" \/ d.req # c.req))
                      => d.pc = "sleep" /\ d.attempt = c.attempt + 1
                /\ (c.attempt > 0 /\ c.pc # "write" /\ d.pc = "write")
                      => c.pc = "load" /\ load[c.ref].st = "served"]_vars
    /\ [](\A t \in DOMAIN call : call[t].pc # "failed")
    /\ [](\A t, u \in DOMAIN call :
            (/\ t # u
             /\ call[t].op = "increment" /\ call[t].pc = "done"
             /\ call[u].op = "increment" /\ call[u].pc = "done"
             /\ \A v \in DOMAIN call \ {t, u} : ~IsUpdate(call[v]))
               => remote = <<Serialize(Counter(2))>>)

\* two increments on an absent document have returned: the create of one was
\* applied, the create of the other was refused and its next attempt was
\* applied on top of the created document
CreateRaceWitness ==
    \E t, u \in DOMAIN call :
        /\ call[t].op = "increment" /\ call[t].pc = "done"
        /\ call[t].base = <<>> /\ call[t].writes = 1 /\ call[t].commits = 1
        /\ call[u].op = "increment" /\ call[u].pc = "done"
        /\ call[u].base = <<Serialize(Counter(1))>>
        /\ call[u].writes >= 2 /\ call[u].commits = 1
        /\ remote = <<Serialize(Counter(2))>>

\* C22: when the answer of a write that the store applied arrives, the cache of
\* the reference holds the written content under its new version with a window
\* of 5 s, whatever was read through the reference while the write was in flight.
CacheHoldsWritten ==
    [][\A t \in DOMAIN call :
         LET c == call[t]
             d == call'[t]
         IN  (/\ c.pc = "write" /\ c.req.st = "served" /\ c.req.status = 200
              /\ d.pc = "done")
                => cache'[c.ref].existing =
                      <<[sha |-> BlobSha(c.req.content), content |-> c.req.content,
                         expires |-> 5000]>>]_vars

\* C23: the cache of a reference is never ahead of the store: the content it
\* holds is one the store holds or has held, under the version the store gave
\* that content, and it holds an absence only when the store has held none; the
\* cache becomes an absence only by the delivery of a read answered 404.
CacheBehindStore ==
    /\ [](\A t \in DOMAIN call :
            LET cch == cache[call[t].ref]
                held == datastore[call[t].store].held
            IN  cch.loaded =>
                  IF cch.existing = <<>> THEN <<>> \in held
                  ELSE /\ <<cch.existing[1].content>> \in held
                       /\ cch.existing[1].sha = BlobSha(cch.existing[1].content))
    /\ [][\A r \in Refs :
            (/\ cache'[r].loaded /\ cache'[r].existing = <<>>
             /\ ~(cache[r].loaded /\ cache[r].existing = <<>>))
               => load[r].st = "served" /\ load[r].status = 404]_vars

\* the store holds a content written through one reference and the cache of
\* another reference holds the content the store held before
CacheBehindStoreWitness ==
    \E t, u \in DOMAIN call :
        /\ call[t].ref # call[u].ref
        /\ call[t].commits = 1
        /\ cache[call[t].ref].existing # <<>>
        /\ remote = <<cache[call[t].ref].existing[1].content>>
        /\ cache[call[u].ref].existing # <<>>
        /\ remote # <<cache[call[u].ref].existing[1].content>>

\* C24: a reference has one read in flight at most: a read is issued only when
\* none is in flight, and a call that needs a refresh while one is in flight
\* leaves that read as it is and waits for it; when the answer of the read
\* arrives every call that waits for it goes on, or, when the read failed,
\* every one of them fails with the error of the read; a write is never
\* shared: each call that comes to write sends a request of its own, and the
\* answer of the store to it is given to that call only.
FetchCoalesced ==
    [][/\ \A r \in Refs :
            /\ (load'[r].st = "sent" /\ load[r].st # "sent") => load[r].st = "idle"
            /\ (load[r].st # "idle"
                 /\ \E t \in DOMAIN call :
                       call[t].ref = r /\ call[t].pc # "load" /\ call'[t].pc = "load")
                  => load'[r] = load[r]
            /\ (load[r].st = "served" /\ load'[r].st = "idle")
                  => \A t \in DOMAIN call :
                        (call[t].ref = r /\ call[t].pc = "load")
                          => IF load[r].status = 500
                             THEN /\ call'[t].pc = "failed"
                                  /\ call'[t].out.status = 500
                             ELSE call'[t].pc \notin {"load", "failed"}
       /\ \A t \in DOMAIN call :
            /\ (call[t].pc # "write" /\ call'[t].pc = "write")
                  => /\ call'[t].req.st = "sent"
                     /\ call'[t].writes = call[t].writes + 1
            /\ (call[t].pc = "write" /\ call[t].req.st = "sent"
                 /\ call'[t].req.st = "served")
                  => \A u \in DOMAIN call \ {t} : call'[u].req = call[u].req]_vars

\* one read that failed has made two calls fail, and no other request failed
FetchCoalescedWitness ==
    \E t, u \in DOMAIN call :
        /\ t # u
        /\ call[t].ref = call[u].ref
        /\ call[t].pc = "failed" /\ call[t].out.status = 500 /\ call[t].writes = 0
        /\ call[u].pc = "failed" /\ call[u].out.status = 500 /\ call[u].writes = 0
        /\ faults = MaxFaults - 1

----------------------------------------------------------------------------
(* The lock with a backend that may fail and with acquirers from outside *)

FaultyInit ==
    /\ remote \in {<<>>, <<Serialize(HeldBy("x", CrashedLease))>>}
    /\ connectivity = [s \in Stores |-> "ok"]
    /\ cache = [r \in Refs |-> NullCache]
    /\ load = [r \in Refs |-> IdleLoad]
    /\ call = [t \in Threads |->
                 IdleCall(t, RefOf[OwnerOf(t)], StoreOf[OwnerOf(t)], OwnerOf(t))]
    /\ lock = [a \in Acquirers |-> IdleLock]
    /\ datastore = [s \in Stores |-> GhkvDataStore(FALSE)]
    /\ faults = MaxFaults
    /\ external = FALSE

\* the owner id of the k-th acquirer from outside
Outsider(k) == "y" \o ToString(k)

\* the store commits the request update of the next acquirer from outside,
\* between the read and the write of a renewal
Intrude(k) ==
    /\ Quiet
    /\ \E a \in Acquirers :
          call[Renew[a]].pc = "write" /\ call[Renew[a]].req.st = "sent"
    /\ \A j \in 1..(k - 1) :
          \/ Queued(QueueOf(DocOf(remote)), Outsider(j))
          \/ OwnerIn(DocOf(remote)) = <<Outsider(j)>>
    /\ LET data == IF remote = <<>> THEN <<>> ELSE <<DocOf(remote)>>
           after == <<Serialize(RequestUsage(Outsider(k), data, Now))>>
       IN  /\ after # remote
           /\ remote' = after
           /\ call' = Observe(call, after)
           /\ lock' = [a \in DOMAIN lock |->
                         [lock[a] EXCEPT !.lapsed =
                            \/ @
                            \/ /\ OwnerIn(DocOf(remote)) = <<a>>
                               /\ OwnerIn(DocOf(after)) # <<a>>
                               /\ lock[a].phase \notin Returned]]
    /\ UNCHANGED <<connectivity, cache, load, datastore, faults, external>>

\* the acquirer whose renewal loop is looked at
Lone == "a1"

\* Lone alone acquires
RenewNext ==
    \/ Acquire(Lone)
    \/ Waited(Lone)
    \/ Poll(Lone)
    \/ Renewed(Lone)
    \/ RenewWake(Lone)
    \/ Working(Lone) /\ Release(Lone)
    \/ Released(Lone)
    \/ \E okay \in BOOLEAN :
          Quiet /\ FetchServe(RefOf[Lone], okay) /\ UNCHANGED <<lock, datastore>>
    \/ Quiet /\ FetchDone(RefOf[Lone]) /\ UNCHANGED <<lock, datastore>>
    \/ \E t \in {Main[Lone], Renew[Lone]}, okay \in BOOLEAN :
          /\ Quiet /\ WriteServe(t, okay)
          /\ lock' = Noted(lock, t, remote, remote')
          /\ UNCHANGED datastore
    \/ \E t \in {Main[Lone], Renew[Lone]} :
          Quiet /\ WriteDone(t) /\ UNCHANGED <<lock, datastore>>
    \/ \E t \in {Main[Lone], Renew[Lone]} :
          Quiet /\ Wake(t) /\ UNCHANGED <<lock, datastore>>
    \/ LockTick
    \/ \E k \in 1..MaxOutsiders : Intrude(k)

RenewSpec == FaultyInit /\ [][RenewNext]_vars

\* two acquirers at a backend that may fail; one of them calls release() a
\* second time
FaultyNext ==
    \/ LiveNext
    \/ ReleaseAgain(Hasty)

FaultySpec == FaultyInit /\ [][FaultyNext]_vars

\* C25: a renewal whose update throws, with the error of the backend or with
\* the conflict of its last attempt, changes nothing for the holder: acquire()
\* has returned and stays so, release() is not called by it, the document is
\* left as it is; the loop goes on: it sleeps for 120 s when release() has not
\* been called, and the sleep ends only with the next renewal, when it is
\* over, or with release(); as long as release() has not been called the loop
\* is at a renewal or sleeps.
RenewalAbsorbs ==
    /\ [][\A a \in Acquirers :
            /\ (lock[a].renew = "updating" /\ lock'[a].renew # "updating"
                 /\ call[Renew[a]].pc = "failed")
                  => /\ call[Renew[a]].out.status \in {409, 422, 500}
                     /\ lock'[a].phase = lock[a].phase
                     /\ lock'[a].finished = lock[a].finished
                     /\ call'[Main[a]] = call[Main[a]]
                     /\ remote' = remote
                     /\ IF lock[a].finished
                        THEN lock'[a].renew = "stopped"
                        ELSE lock'[a].renew = "sleeping" /\ lock'[a].sleep = RenewDelay
            /\ (lock[a].renew = "sleeping" /\ lock'[a].renew # "sleeping")
                  => IF lock'[a].finished
                     THEN lock'[a].renew = "stopped"
                     ELSE /\ lock[a].sleep = 0
                          /\ lock'[a].renew = "updating"
                          /\ call'[Renew[a]].op = "extend"
                          /\ call'[Renew[a]].pc \notin {"idle", "done", "failed"}]_vars
    /\ [](\A a \in Acquirers :
            lock[a].phase = "active" => lock[a].renew \in {"updating", "sleeping"})

\* the loop is at its next renewal after one that failed with the error of the
\* backend and one that failed with a conflict
RenewalAbsorbsWitness ==
    \E a \in Acquirers :
        /\ {409, 500} \subseteq lock[a].absorbed
        /\ lock[a].phase = "active"
        /\ ~lock[a].finished
        /\ lock[a].renew = "updating"

----------------------------------------------------------------------------
(* Properties of the lock document *)

\* C26: in the document the store holds no owner is in the queue twice, and
\* the owner on stage is not in the queue.
OwnerUnique ==
    LET d == DocOf(remote)
        q == QueueOf(d)
    IN  /\ \A i, j \in 1..Len(q) : q[i] = q[j] => i = j
        /\ d.active # <<>> => ~Queued(q, d.active[1].owner)

\* an acquirer that is in the queue has run its request update once more, one
\* that was in the queue is on stage, and one has released
OwnerUniqueWitness ==
    \E a, b \in Acquirers :
        /\ a # b
        /\ Queued(QueueOf(DocOf(remote)), a)
        /\ call[Main[a]].pc = "done" /\ call[Main[a]].op = "request"
        /\ call[Main[a]].elided
        /\ OwnerIn(DocOf(remote)) = <<b>>
        /\ lock[b].queued

\* C27: an update that is about to write a document whose entry on stage is
\* not the one of the document it read has computed that entry with a lease
\* that ends after the instant of the computation: 60 s after it for the head
\* of the queue, which a request update or release() promotes, 300 s after it
\* for the acquirer that goes on stage itself and for the holder that renews;
\* the document of the store changes only when the store applies such a write
\* (and, its instants being relative, when time passes), so that a lease in it
\* never ends more than 300 s ahead.
LeaseAhead ==
    /\ [][\A u \in DOMAIN call :
            (call[u].pc # "write" /\ call'[u].pc = "write")
              => LET c == call'[u]
                     new == c.data[1]
                     old == IF c.base = <<>> THEN EmptyDoc ELSE c.base[1][2]
                     head == IF Len(QueueOf(old)) > 0
                             THEN <<Head(QueueOf(old))>> ELSE <<>>
                 IN  (new.active # <<>> /\ new.active # old.active)
                       => LET e == new.active[1]
                          IN  /\ IsoGt(e.expiresAt, toDateJSON(Now))
                              /\ c.op = "request"
                                    => IF <<e.owner>> = head
                                       THEN e.expiresAt = toDateJSON(Now + ProvisionalLease)
                                       ELSE /\ e.owner = c.owner
                                            /\ e.expiresAt = toDateJSON(Now + Lease)
                              /\ c.op = "extend"
                                    => /\ e.owner = c.owner
                                       /\ OwnerIn(old) = <<c.owner>>
                                       /\ e.expiresAt = toDateJSON(Now + Lease)
                              /\ c.op = "finish"
                                    => /\ <<e.owner>> = head
                                       /\ e.expiresAt = toDateJSON(Now + ProvisionalLease)]_vars
    /\ [][remote' # remote
            => \/ \E t \in DOMAIN call :
                    /\ call[t].pc = "write" /\ call[t].req.st = "sent"
                    /\ remote' = <<call[t].req.content>>
               \/ remote' = PastOptContent(remote, LockStep)]_vars
    /\ [](DocOf(remote).active # <<>>
            => IsoGeq(toDateJSON(Now + Lease), DocOf(remote).active[1].expiresAt))

\* the store has applied the write of a release() that put the head of the
\* queue on stage, after the holder had renewed its lease
LeaseAheadWitness ==
    \E a, b \in Acquirers :
        /\ a # b
        /\ call[Main[a]].op = "finish"
        /\ call[Main[a]].pc = "write"
        /\ call[Main[a]].req.st = "served" /\ call[Main[a]].req.status = 200
        /\ call[Main[a]].base # <<>>
        /\ call[Main[a]].base[1][2].active
              = <<[owner |-> a, expiresAt |-> toDateJSON(Now + Lease)]>>
        /\ remote = <<call[Main[a]].req.content>>
        /\ DocOf(remote).active
              = <<[owner |-> b, expiresAt |-> toDateJSON(Now + ProvisionalLease)]>>

\* C28: the document of the store has an owner on stage whenever its queue is
\* not empty, and whenever the store has just applied the write of a request
\* update.
NoWaitersWithoutHolder ==
    /\ [](QueueOf(DocOf(remote)) # <<>> => DocOf(remote).active # <<>>)
    /\ [][\A t \in DOMAIN call :
            (/\ call[t].op = "request"
             /\ call[t].pc = "write" /\ call[t].req.st = "sent"
             /\ call'[t].req.st = "served" /\ call'[t].req.status = 200)
              => /\ remote' = <<call[t].req.content>>
                 /\ DocOf(remote').active # <<>>]_vars

\* the store has applied the request update of a queued acquirer that pulled
\* the holder down and went on stage, another acquirer staying in the queue
NoWaitersWithoutHolderWitness ==
    \E a, b \in Acquirers :
        /\ a # b
        /\ call[Main[a]].op = "request"
        /\ call[Main[a]].pc = "write"
        /\ call[Main[a]].req.st = "served" /\ call[Main[a]].req.status = 200
        /\ remote = <<call[Main[a]].req.content>>
        /\ call[Main[a]].base # <<>>
        /\ OwnerIn(call[Main[a]].base[1][2]) \notin {<<>>, <<a>>, <<b>>}
        /\ OwnerIn(DocOf(remote)) = <<a>>
        /\ QueueOf(DocOf(remote)) = <<b>>

\* C29: the update of release() by an acquirer that is not on stage, another
\* owner being there, does not change the document: it sends no write when
\* the document it read has another owner on stage, and a write it sent for a
\* document it read earlier is refused by the store when another owner is on
\* stage by then.
ReleaseByStranger ==
    [][\A a \in Acquirers :
         LET c == call[Main[a]]
             d == call'[Main[a]]
         IN  /\ (d.op = "finish" /\ c.pc # "write" /\ d.pc = "write")
                   => OwnerIn(IF d.base = <<>> THEN EmptyDoc ELSE d.base[1][2])
                        \in {<<>>, <<a>>}
             /\ (/\ c.op = "finish" /\ c.pc = "write"
                  /\ c.req.st = "sent" /\ d.req.st = "served"
                  /\ OwnerIn(DocOf(remote)) \notin {<<>>, <<a>>})
                   => /\ remote' = remote
                      /\ d.req.status # 200
             /\ (/\ c.op = "finish" /\ c.pc \notin {"idle", "done", "failed"}
                  /\ OwnerIn(DocOf(remote)) \notin {<<>>, <<a>>}
                  /\ remote' # remote)
                   => \/ \E t \in DOMAIN call \ {Main[a]} :
                           /\ call[t].pc = "write" /\ call[t].req.st = "sent"
                           /\ remote' = <<call[t].req.content>>
                      \/ remote' = PastOptContent(remote, LockStep)]_vars

\* the update of release() has returned for a holder whose lease is over,
\* without a write, and the other acquirer is on stage with its lease
ReleaseByStrangerWitness ==
    \E a, b \in Acquirers :
        /\ a # b
        /\ lock[a].phase = "releasing"
        /\ lock[a].lease # <<>>
        /\ IsoGeq(toDateJSON(Now), lock[a].lease[1])
        /\ call[Main[a]].op = "finish" /\ call[Main[a]].pc = "done"
        /\ call[Main[a]].writes = 0
        /\ call[Main[a]].base = remote
        /\ OwnerIn(DocOf(remote)) = <<b>>
        /\ IsoGt(DocOf(remote).active[1].expiresAt, toDateJSON(Now))

\* C30: when the update of release() throws, release() ends with that error
\* and changes nothing else: `finished` stays set and the document is as it
\* was; from then on neither thread of the acquirer starts an update, the
\* renewal loop does not sleep again, and a later release() only returns; an
\* acquirer that the store had on stage at that time stays there, with the
\* lease it had, until the store applies the request update of another
\* acquirer, at an instant at which that lease is over.
ReleaseRejected ==
    [][\A a \in Acquirers :
            /\ (lock[a].phase = "releasing" /\ lock'[a].phase # "releasing"
                 /\ call[Main[a]].pc = "failed")
                  => /\ lock'[a].phase = "released"
                     /\ lock'[a].finished
                     /\ lock'[a].rejected # "no"
                     /\ lock'[a].renew = lock[a].renew
                     /\ remote' = remote
            /\ lock[a].rejected # "no"
                  => /\ lock'[a].finished
                     /\ lock'[a].phase = "released"
                     /\ lock'[a].renew \in {"updating", "stopped"}
                     /\ \A t \in {Main[a], Renew[a]} :
                           call[t].pc = "idle" => call'[t].pc = "idle"
                     /\ lock'[a].calls # lock[a].calls
                           => /\ lock'[a] = [lock[a] EXCEPT !.calls = @ + 1]
                              /\ UNCHANGED <<remote, connectivity, cache, load, call,
                                             datastore, faults, external>>
            /\ (/\ lock[a].rejected = "held" /\ lock[a].renew = "stopped"
                 /\ OwnerIn(DocOf(remote)) = <<a>>
                 /\ DocOf(remote').active # DocOf(remote).active)
                  => \/ remote' = PastOptContent(remote, LockStep)
                     \/ \E b \in Acquirers \ {a} :
                           /\ call[Main[b]].op = "request"
                           /\ call[Main[b]].pc = "write"
                           /\ call[Main[b]].req.st = "sent"
                           /\ remote' = <<call[Main[b]].req.content>>
                           /\ IsoGeq(toDateJSON(Now), DocOf(remote).active[1].expiresAt)
                           /\ OwnerIn(DocOf(remote')) # <<a>>]_vars

\* release() threw while the store had the acquirer on stage, it was called
\* again, and the store has just applied the request update of the other
\* acquirer, which pulled the first one down
ReleaseRejectedWitness ==
    \E a, b \in Acquirers :
        /\ a # b
        /\ lock[a].rejected = "held"
        /\ lock[a].calls = 2
        /\ call[Main[b]].op = "request"
        /\ call[Main[b]].pc = "write"
        /\ call[Main[b]].req.st = "served" /\ call[Main[b]].req.status = 200
        /\ remote = <<call[Main[b]].req.content>>
        /\ call[Main[b]].base # <<>>
        /\ OwnerIn(call[Main[b]].base[1][2]) = <<a>>
        /\ OwnerIn(DocOf(remote)) = <<b>>

----------------------------------------------------------------------------
(* Properties of get() and the preflight *)

\* C31: get() waits for the preflight of its store as set() and update() do.
\* As long as the preflight has not passed no read is sent for any document
\* of the store and no cache of it is loaded; a store that is not read-only
\* and whose repos.get grants no push permission has a failed preflight;
\* every get() that waited for a preflight that failed fails with its error,
\* and every get() called after it, on whatever document of the store, fails
\* at once with that error and sends no read.
GetGated ==
    /\ [](\A t \in DOMAIN call :
            LET s == call[t].store
                st == datastore[s]
            IN  /\ connectivity[s] # "ok"
                      => /\ load[call[t].ref].st = "idle"
                         /\ ~cache[call[t].ref].loaded
                /\ (st.repo = <<"pull">> /\ ~st.readOnly) => connectivity[s] = "failed"
                /\ (connectivity[s] = "failed" /\ call[t].op = "get")
                      => call[t].pc = "failed" /\ call[t].out.status = 403)
    /\ [][\A t \in DOMAIN call :
            LET c == call[t]
                d == call'[t]
                s == c.store
            IN  /\ (c.pc = "idle" /\ d.pc # "idle" /\ d.op = "get"
                     /\ connectivity[s] = "failed")
                      => /\ d.pc = "failed" /\ d.out.status = 403
                         /\ load' = load
                         /\ cache' = cache
                         /\ connectivity' = connectivity
                /\ (c.pc = "idle" /\ d.pc # "idle" /\ d.op = "get"
                     /\ connectivity[s] \in {"unset", "pending"})
                      => /\ d.pc = "conn"
                         /\ load' = load
                /\ (c.pc = "conn" /\ c.op = "get" /\ connectivity'[s] = "failed")
                      => /\ d.pc = "failed" /\ d.out.status = 403
                         /\ load' = load]_vars

\* the store is not read-only and repos.get granted no push permission: a
\* get() that waited for the preflight has failed, and so has a get() of
\* another document of the store that was called afterwards; no read was sent
GetGatedWitness ==
    \E t, u \in DOMAIN call :
        /\ call[t].store = call[u].store
        /\ call[t].ref # call[u].ref
        /\ datastore[call[t].store].repo = <<"pull">>
        /\ ~datastore[call[t].store].readOnly
        /\ call[t].op = "get" /\ call[t].pc = "failed" /\ call[t].out.status = 403
        /\ call[u].op = "get" /\ call[u].pc = "failed" /\ call[u].out.status = 403
        /\ t \notin datastore[call[t].store].refused
        /\ u \in datastore[call[t].store].refused
        /\ \A r \in Refs : load[r].st = "idle" /\ ~cache[r].loaded


====
